---- MODULE Spec2Model ----
(***************************************************************************)
(* Model of the Theology repository: the Pushforward / Pullback            *)
(* transformation pairs of categorical_theology.py and the content         *)
(* registries (static query functions returning dataclass records).        *)
(*                                                                         *)
(* Python values are modelled as tagged records, strings handled by a      *)
(* transformation are tuples of one-character strings, and objects live    *)
(* in heaps indexed by object identity.                                    *)
(***************************************************************************)
EXTENDS Integers, Sequences, FiniteSets, TLC

VARIABLES pairs, last, module, objs, held, shown, script, pc, view, frame, prior, exit

pairVars == <<pairs, last>>
contentVars == <<module, objs, held, shown>>
scriptVars == <<script, pc, view, frame, prior, exit>>
vars == <<pairs, last, module, objs, held, shown, script, pc, view, frame, prior, exit>>

(***************************************************************************)
(* Bounds                                                                  *)
(***************************************************************************)
MaxComposed == 1
MaxHeld == 2
MaxTamper == 1
MaxKeys == 2
MaxFrames == 2

(***************************************************************************)
(* Python values seen by a transformation                                  *)
(***************************************************************************)
StrVal(chars) == [t |-> "str", s |-> chars, n |-> 0]
IntVal(k) == [t |-> "int", s |-> <<>>, n |-> k]
NoneVal == [t |-> "none", s |-> <<>>, n |-> 0]

Returns(v) == [raised |-> FALSE, val |-> v, err |-> "none"]
Raises(e) == [raised |-> TRUE, val |-> NoneVal, err |-> e]

LowerCase == <<"a", "b", "c", "d", "e", "f", "g", "h", "i", "j", "k", "l", "m",
               "n", "o", "p", "q", "r", "s", "t", "u", "v", "w", "x", "y", "z">>
UpperCase == <<"A", "B", "C", "D", "E", "F", "G", "H", "I", "J", "K", "L", "M",
               "N", "O", "P", "Q", "R", "S", "T", "U", "V", "W", "X", "Y", "Z">>

\* str.upper() on one character: cased letters map to upper case, all else is kept
UpperChar(c) ==
    IF \E i \in 1..Len(LowerCase) : LowerCase[i] = c
    THEN UpperCase[CHOOSE i \in 1..Len(LowerCase) : LowerCase[i] = c]
    ELSE c

str_upper(chars) == [i \in 1..Len(chars) |-> UpperChar(chars[i])]

Digits == <<"0", "1", "2", "3", "4", "5", "6", "7", "8", "9">>

RECURSIVE int_str(_)
\* str(n) for a non-negative int
int_str(k) ==
    IF k < 10 THEN <<Digits[k + 1]>>
    ELSE int_str(k \div 10) \o <<Digits[(k % 10) + 1]>>

\* format(v) as used by an f-string replacement field
format(v) == IF v.t = "str" THEN v.s ELSE int_str(v.n)

(***************************************************************************)
(* The unary transformations wrapped by the pairs: the two lambdas of      *)
(* demonstrate_pushforward_pullback and the caller-supplied ones           *)
(***************************************************************************)
MaitreyaSuffix ==
    <<" ", "→", " ", "f", "u", "t", "u", "r", "e", "_", "e", "n", "l", "i", "g",
      "h", "t", "e", "n", "m", "e", "n", "t", " ", "(", "v", "i", "a", " ", "M",
      "a", "i", "t", "r", "e", "y", "a", "'", "s", " ", "t", "e", "a", "c", "h",
      "i", "n", "g", ")">>
MessiahSuffix ==
    <<" ", "←", " ", "a", "n", "c", "i", "e", "n", "t", "_", "p", "r", "o", "p",
      "h", "e", "c", "y", " ", "(", "f", "u", "l", "f", "i", "l", "l", "e", "d",
      " ", "b", "y", " ", "M", "e", "s", "s", "i", "a", "h", ")">>

\* lambda state: f"{state} → future_enlightenment (via Maitreya's teaching)"
pushforward_enlightenment_lambda(x) == Returns(StrVal(format(x) \o MaitreyaSuffix))

\* lambda event: f"{event} ← ancient_prophecy (fulfilled by Messiah)"
pullback_prophecy_lambda(x) == Returns(StrVal(format(x) \o MessiahSuffix))

\* lambda s: s + "_done"
append_done(x) ==
    IF x.t = "str" THEN Returns(StrVal(x.s \o <<"_", "d", "o", "n", "e">>))
    ELSE Raises("TypeError")

\* lambda s: s.upper()
upper(x) ==
    IF x.t = "str" THEN Returns(StrVal(str_upper(x.s)))
    ELSE Raises("AttributeError")

\* lambda s: "<" + s
prepend_lt(x) ==
    IF x.t = "str" THEN Returns(StrVal(<<"<">> \o x.s))
    ELSE Raises("TypeError")

\* lambda s: s + ">"
append_gt(x) ==
    IF x.t = "str" THEN Returns(StrVal(x.s \o <<">">>))
    ELSE Raises("TypeError")

\* lambda s: len(s)
length(x) ==
    IF x.t = "str" THEN Returns(IntVal(Len(x.s)))
    ELSE Raises("TypeError")

PushforwardTransformations ==
    {"pushforward_enlightenment_lambda", "append_done", "upper", "length"}
PullbackTransformations ==
    {"pullback_prophecy_lambda", "prepend_lt", "append_gt", "length"}
Transformations == PushforwardTransformations \cup PullbackTransformations

\* calling the plain function value named f on x
CallFunction(f, x) ==
    CASE f = "pushforward_enlightenment_lambda" -> pushforward_enlightenment_lambda(x)
      [] f = "pullback_prophecy_lambda" -> pullback_prophecy_lambda(x)
      [] f = "append_done" -> append_done(x)
      [] f = "upper" -> upper(x)
      [] f = "prepend_lt" -> prepend_lt(x)
      [] f = "append_gt" -> append_gt(x)
      [] f = "length" -> length(x)

\* arguments the caller applies pairs to
Inputs ==
    {StrVal(<<"s", "t", "e", "p">>), StrVal(<<"x">>),
     StrVal(<<"i", "n", "s", "i", "g", "h", "t">>), IntVal(7)}

(***************************************************************************)
(* Pushforward and Pullback                                                *)
(*                                                                         *)
(* pairs is the heap of pair objects, indexed by identity.  The field      *)
(* transformation holds a function value: a plain function (self = other   *)
(* = 0) or one of the closures built by compose, which capture the two     *)
(* pair OBJECTS self and other.                                            *)
(*                                                                         *)
(* An evaluation yields [out, trace]: the outcome (return value or raised  *)
(* error) and the sequence of invocations self.transformation(arg) made,   *)
(* in call order, each recorded as [pair, arg].                            *)
(***************************************************************************)
PlainFunction(f) == [fn |-> f, self |-> 0, other |-> 0]
Closure(f, self, other) == [fn |-> f, self |-> self, other |-> other]

PushLambda == "Pushforward.compose.<lambda>"
PullLambda == "Pullback.compose.<lambda>"

IsSimple(h, p) == h[p].transformation.fn \in Transformations

RECURSIVE apply(_, _, _)

\* variant: the two operands applied in the opposite order
Pushforward_compose_lambda_reversed(h, self, other, x) ==
    LET inner == apply(h, other, x) IN
    IF inner.out.raised THEN inner
    ELSE LET outer == apply(h, self, inner.out.val) IN
         [out |-> outer.out, trace |-> inner.trace \o outer.trace]

\* lambda x: other.apply(self.apply(x))        (a raise ends the evaluation)
Pushforward_compose_lambda(h, self, other, x) ==
    LET inner == apply(h, self, x) IN
    IF inner.out.raised THEN inner
    ELSE LET outer == apply(h, other, inner.out.val) IN
         [out |-> outer.out, trace |-> inner.trace \o outer.trace]

\* variant: the two operands applied in the opposite order
Pullback_compose_lambda_reversed(h, self, other, x) ==
    LET inner == apply(h, self, x) IN
    IF inner.out.raised THEN inner
    ELSE LET outer == apply(h, other, inner.out.val) IN
         [out |-> outer.out, trace |-> inner.trace \o outer.trace]

\* variant: what other.apply raises is caught and self.apply is given None
Pullback_compose_lambda_continues(h, self, other, x) ==
    LET inner == apply(h, other, x)
        outer == apply(h, self, IF inner.out.raised THEN NoneVal ELSE inner.out.val)
    IN [out |-> outer.out, trace |-> inner.trace \o outer.trace]

\* lambda x: self.apply(other.apply(x))
Pullback_compose_lambda(h, self, other, x) ==
    LET inner == apply(h, other, x) IN
    IF inner.out.raised THEN inner
    ELSE LET outer == apply(h, self, inner.out.val) IN
         [out |-> outer.out, trace |-> inner.trace \o outer.trace]

\* the call t(x) of a function value t
Invoke(h, t, x) ==
    IF t.fn = PushLambda THEN Pushforward_compose_lambda(h, t.self, t.other, x)
    ELSE IF t.fn = PullLambda THEN Pullback_compose_lambda(h, t.self, t.other, x)
    ELSE [out |-> CallFunction(t.fn, x), trace |-> <<>>]

\* variant: apply hands back its argument instead of the transformation's result
Pushforward_apply_identity(h, p, x) ==
    LET r == Invoke(h, h[p].transformation, x) IN
    [out |-> IF r.out.raised THEN r.out ELSE Returns(x),
     trace |-> <<[pair |-> p, arg |-> x]>> \o r.trace]

\* variant: apply keeps the outcome of the previous call and answers a repeated
\* call from it, without invoking the transformation
Pushforward_apply_cached(h, p, x) ==
    IF last.op = "apply" /\ last.self = p /\ last.x = x
    THEN [out |-> last.out, trace |-> <<>>]
    ELSE LET r == Invoke(h, h[p].transformation, x) IN
         [out |-> r.out, trace |-> <<[pair |-> p, arg |-> x]>> \o r.trace]

\* return self.transformation(source)
Pushforward_apply(h, p, x) ==
    LET r == Invoke(h, h[p].transformation, x) IN
    [out |-> r.out, trace |-> <<[pair |-> p, arg |-> x]>> \o r.trace]

\* variant: apply catches what the transformation raises and returns None
Pullback_apply_swallowing(h, p, x) ==
    LET r == Invoke(h, h[p].transformation, x) IN
    [out |-> IF r.out.raised THEN Returns(NoneVal) ELSE r.out,
     trace |-> <<[pair |-> p, arg |-> x]>> \o r.trace]

\* return self.transformation(target)
Pullback_apply(h, p, x) ==
    LET r == Invoke(h, h[p].transformation, x) IN
    [out |-> r.out, trace |-> <<[pair |-> p, arg |-> x]>> \o r.trace]

\* method lookup of p.apply by the class of p
apply(h, p, x) ==
    IF h[p].cls = "Pushforward" THEN Pushforward_apply(h, p, x)
    ELSE Pullback_apply(h, p, x)

\* Pushforward(transformation) / Pullback(transformation): a new object
Pushforward_init(h, t) ==
    [heap |-> Append(h, [cls |-> "Pushforward", transformation |-> t]),
     ret |-> Len(h) + 1]
Pullback_init(h, t) ==
    [heap |-> Append(h, [cls |-> "Pullback", transformation |-> t]),
     ret |-> Len(h) + 1]

\* variant: compose rebinds self.transformation and returns self
Pushforward_compose_inplace(h, self, other) ==
    [heap |-> [h EXCEPT ![self].transformation = h[other].transformation],
     ret |-> self]

\* variant: the class in the return statement is the other one
Pushforward_compose_returns_pullback(h, self, other) ==
    Pullback_init(h, Closure(PushLambda, self, other))

\* return Pushforward(lambda x: other.apply(self.apply(x)))
Pushforward_compose(h, self, other) ==
    Pushforward_init(h, Closure(PushLambda, self, other))

\* variant: the lambda of Pushforward.compose copied into Pullback.compose
Pullback_compose_forward_order(h, self, other) ==
    Pullback_init(h, Closure(PushLambda, self, other))

\* return Pullback(lambda x: self.apply(other.apply(x)))
Pullback_compose(h, self, other) ==
    Pullback_init(h, Closure(PullLambda, self, other))

compose(h, self, other) ==
    IF h[self].cls = "Pushforward" THEN Pushforward_compose(h, self, other)
    ELSE Pullback_compose(h, self, other)

(***************************************************************************)
(* State: the pair heap and the record of the caller's last operation.     *)
(* again / prev record whether the apply before this one was the same      *)
(* call (same pair, same argument) and what it returned.                   *)
(***************************************************************************)
NoOutcome == [raised |-> FALSE, val |-> NoneVal, err |-> "unset"]

LastRecord(op, self, other, ret, x, out, trace, again, prev) ==
    [op |-> op, self |-> self, other |-> other, ret |-> ret, x |-> x,
     out |-> out, trace |-> trace, again |-> again, prev |-> prev]

\* the simple pairs a caller can construct: Pushforward(f) or Pullback(f)
SimplePairs ==
    {<<"Pushforward", f>> : f \in PushforwardTransformations}
        \cup {<<"Pullback", f>> : f \in PullbackTransformations}

\* cls(f): the constructor call
Construct(h, sp) ==
    IF sp[1] = "Pushforward" THEN Pushforward_init(h, PlainFunction(sp[2]))
    ELSE Pullback_init(h, PlainFunction(sp[2]))

NoLast == LastRecord("none", 0, 0, 0, NoneVal, NoOutcome, <<>>, FALSE, NoOutcome)

\* no pair has been constructed
PairIdle ==
    /\ pairs = <<>>
    /\ last = NoLast

\* the caller has constructed two simple pairs
PairInit ==
    /\ \E a \in SimplePairs, b \in SimplePairs :
          pairs = Construct(Construct(<<>>, a).heap, b).heap
    /\ last = NoLast

Composed == {p \in 1..Len(pairs) : ~IsSimple(pairs, p)}

\* c = self.compose(other)
Compose(self, other) ==
    /\ Cardinality(Composed) < MaxComposed
    /\ LET r == compose(pairs, self, other) IN
       /\ pairs' = r.heap
       /\ last' = LastRecord("compose", self, other, r.ret, NoneVal, NoOutcome,
                             <<>>, FALSE, NoOutcome)

\* result = p.apply(x)
Apply(p, x) ==
    LET r == apply(pairs, p, x)
        again == last.op = "apply" /\ last.self = p /\ last.x = x
    IN /\ pairs' = pairs
       /\ last' = LastRecord("apply", p, 0, 0, x, r.out, r.trace, again,
                             IF again THEN last.out ELSE NoOutcome)

PairNext ==
    /\ \/ \E self \in 1..Len(pairs), other \in 1..Len(pairs) : Compose(self, other)
       \/ \E p \in 1..Len(pairs), x \in Inputs : Apply(p, x)
    /\ UNCHANGED <<contentVars, scriptVars>>

(***************************************************************************)
(* A caller that composes three pairs A, B, C of one variant in both       *)
(* groupings and applies what it has                                       *)
(***************************************************************************)
\* the caller has constructed A, B and C, all Pushforward or all Pullback
TripleInit ==
    /\ \E cls \in {"Pushforward", "Pullback"} :
          \E a \in SimplePairs, b \in SimplePairs, c \in SimplePairs :
             /\ a[1] = cls /\ b[1] = cls /\ c[1] = cls
             /\ pairs = Construct(Construct(Construct(<<>>, a).heap, b).heap, c).heap
    /\ last = NoLast

\* composed pairs of the shape (p.compose(q)).compose(r) and p.compose(q.compose(r))
LeftNested ==
    {p \in Composed : /\ ~IsSimple(pairs, pairs[p].transformation.self)
                      /\ IsSimple(pairs, pairs[p].transformation.other)}
RightNested ==
    {p \in Composed : /\ IsSimple(pairs, pairs[p].transformation.self)
                      /\ ~IsSimple(pairs, pairs[p].transformation.other)}

\* left = A.compose(B).compose(C)
ComposeLeft ==
    /\ LeftNested = {}
    /\ LET ab == compose(pairs, 1, 2)
           abc == compose(ab.heap, ab.ret, 3)
       IN /\ pairs' = abc.heap
          /\ last' = LastRecord("compose", ab.ret, 3, abc.ret, NoneVal, NoOutcome,
                                <<>>, FALSE, NoOutcome)

\* right = A.compose(B.compose(C))
ComposeRight ==
    /\ RightNested = {}
    /\ LET bc == compose(pairs, 2, 3)
           abc == compose(bc.heap, 1, bc.ret)
       IN /\ pairs' = abc.heap
          /\ last' = LastRecord("compose", 1, bc.ret, abc.ret, NoneVal, NoOutcome,
                                <<>>, FALSE, NoOutcome)

TripleNext ==
    /\ \/ ComposeLeft
       \/ ComposeRight
       \/ \E p \in 1..Len(pairs), x \in Inputs : Apply(p, x)
    /\ UNCHANGED <<contentVars, scriptVars>>

(***************************************************************************)
(* Content registries                                                      *)
(*                                                                         *)
(* objs is the heap of the container objects the queries build: lists,     *)
(* tuples and dataclass instances, indexed by identity.  An element of an  *)
(* object is a str, an enum member or a reference to another object.  The  *)
(* fields of a dataclass instance are kept in declaration order, the order *)
(* in which the generated __eq__ compares them.  Multi-line text literals  *)
(* are abbreviated to their heading line, and the characters the parser    *)
(* does not accept inside a string are transliterated.                     *)
(***************************************************************************)
Str(s) == [t |-> "str", s |-> s, r |-> 0, c |-> ""]
Enum(c, member) == [t |-> "enum", s |-> member, r |-> 0, c |-> c]
Ref(id) == [t |-> "ref", s |-> "", r |-> id, c |-> ""]

EmptyHeap == <<>>

\* variant: one instance per record class, overwritten and handed out again
NewObject_singleton(h, cls, items) ==
    IF cls \notin {"list", "tuple"} /\ \E id \in 1..Len(h) : h[id].cls = cls
    THEN LET id == CHOOSE id \in 1..Len(h) : h[id].cls = cls IN
         [heap |-> [h EXCEPT ![id].items = items], ret |-> Ref(id)]
    ELSE [heap |-> Append(h, [cls |-> cls, items |-> items]), ret |-> Ref(Len(h) + 1)]

\* evaluation of a list display, a tuple display or a dataclass constructor
\* call: a new object
NewObject(h, cls, items) ==
    [heap |-> Append(h, [cls |-> cls, items |-> items]), ret |-> Ref(Len(h) + 1)]

StrElems(strs) == [i \in 1..Len(strs) |-> Str(strs[i])]

\* variant: the properties come from a list kept at module level, so a concept
\* is given the list an earlier concept with the same properties already has
TheologicalConcept_shared_list(h, name, tradition, temporal_direction, properties) ==
    LET Same(id) == /\ h[id].cls = "list"
                    /\ Len(h[id].items) >= Len(properties)
                    /\ SubSeq(h[id].items, 1, Len(properties)) = StrElems(properties)
        l == IF \E id \in 1..Len(h) : Same(id)
             THEN [heap |-> h, ret |-> Ref(CHOOSE id \in 1..Len(h) : Same(id))]
             ELSE NewObject(h, "list", StrElems(properties))
    IN NewObject(l.heap, "TheologicalConcept",
                 <<Str(name), Str(tradition),
                   Enum("TemporalDirection", temporal_direction), l.ret>>)

\* @dataclass class TheologicalConcept: name, tradition, temporal_direction, properties
TheologicalConcept(h, name, tradition, temporal_direction, properties) ==
    LET l == NewObject(h, "list", StrElems(properties)) IN
    NewObject(l.heap, "TheologicalConcept",
              <<Str(name), Str(tradition),
                Enum("TemporalDirection", temporal_direction), l.ret>>)

\* @dataclass class TopologicalDefect: name, dimension, symmetry_broken,
\* theological_concept, properties, stability
TopologicalDefect(h, name, dimension, symmetry_broken, theological_concept, properties, stability) ==
    LET l == NewObject(h, "list", StrElems(properties)) IN
    NewObject(l.heap, "TopologicalDefect",
              <<Str(name), Enum("DefectDimension", dimension),
                Enum("SymmetryBreaking", symmetry_broken),
                Str(theological_concept), l.ret, Str(stability)>>)

\* @dataclass class HistoricalFigure: name, time_period, description, significance
HistoricalFigure(h, name, time_period, description, significance) ==
    NewObject(h, "HistoricalFigure",
              <<Str(name), Str(time_period), Str(description), Str(significance)>>)

\* @dataclass class TheologicalAttribute: name, tradition, description,
\* symbolic_meaning, artistic_representation
TheologicalAttribute(h, name, tradition, description, symbolic_meaning, artistic_representation) ==
    NewObject(h, "TheologicalAttribute",
              <<Str(name), Str(tradition), Str(description), Str(symbolic_meaning),
                Enum("ArtisticDepiction", artistic_representation)>>)

Dataclasses ==
    {"TheologicalConcept", "TopologicalDefect", "HistoricalFigure",
     "TheologicalAttribute"}

\* index of the properties field of the classes that have one
PropertiesField(cls) == IF cls = "TheologicalConcept" THEN 4 ELSE 5

\* TheologicalFunctor.create_maitreya (categorical_theology.py:96)
create_maitreya(h) ==
    TheologicalConcept(h,
        "Maitreya",
        "Buddhism",
        "FORWARD",
        <<"Future Buddha", "Will appear in future", "Teaches dharma in degenerate age", "Represents hope and future enlightenment", "Covariant with time's arrow">>)

\* TheologicalFunctor.create_messiah (categorical_theology.py:112)
create_messiah(h) ==
    TheologicalConcept(h,
        "Messiah",
        "Abrahamic",
        "BACKWARD",
        <<"Fulfillment of prophecy", "References ancient covenants", "Validates past promises", "Redeemer and deliverer", "Contravariant validation of history">>)

\* TheologicalFunctor.create_erlang_shen (categorical_theology.py:128)
create_erlang_shen(h) ==
    TheologicalConcept(h,
        "二郎Shen (Erlang Shen)",
        "Chinese (Taoist/Folk)",
        "FORWARD",
        <<"Three-eyed warrior god", "Defeats demons and controls floods", "Protector deity with celestial hound", "Maintains cosmic order", "Active guardian of righteousness">>)

\* TheologicalFunctor.create_archangel_michael (categorical_theology.py:144)
create_archangel_michael(h) ==
    TheologicalConcept(h,
        "Archangel Michael",
        "Abrahamic (Judaism/Christianity/Islam)",
        "FORWARD",
        <<"Chief of heavenly armies", "Defeats Satan and demons", "Protector and warrior angel", "Defender of divine order", "Active guardian of the faithful">>)

\* variant: the tuple is built in the order (messiah, maitreya)
demonstrate_duality_swapped(h) ==
    LET maitreya == create_maitreya(h)
        messiah == create_messiah(maitreya.heap)
    IN NewObject(messiah.heap, "tuple", <<messiah.ret, maitreya.ret>>)

\* TheologicalFunctor.demonstrate_duality (categorical_theology.py:160)
demonstrate_duality(h) ==
    LET maitreya == create_maitreya(h)
        messiah == create_messiah(maitreya.heap)
    IN NewObject(messiah.heap, "tuple", <<maitreya.ret, messiah.ret>>)

\* TheologicalFunctor.demonstrate_warrior_correspondence (categorical_theology.py:173)
demonstrate_warrior_correspondence(h) ==
    LET erlang_shen == create_erlang_shen(h)
        michael == create_archangel_michael(erlang_shen.heap)
    IN NewObject(michael.heap, "tuple", <<erlang_shen.ret, michael.ret>>)

\* TheologicalFunctor.explain_correspondence (categorical_theology.py:186)
explain_correspondence(h) ==
    [heap |-> h, ret |-> Str("CATEGORICAL THEOLOGY: Pushforward ↔ Pullback :: Maitreya ↔ Messiah")]

\* TheologicalFunctor.explain_warrior_correspondence (categorical_theology.py:218)
explain_warrior_correspondence(h) ==
    [heap |-> h, ret |-> Str("CATEGORICAL THEOLOGY: Identity Functor :: 二郎Shen ↔ Archangel Michael")]

\* DefectClassification.create_monopole (topological_defect.py:54)
create_monopole(h) ==
    TopologicalDefect(h,
        "Monopole",
        "POINT",
        "DIVINE_UNITY",
        "The Incarnation",
        <<"Point-like manifestation of the infinite", "Breaks transcendence-immanence symmetry", "Stable singularity in spacetime", "Divine concentrated at a point", "Cannot be removed by continuous transformation">>,
        "Topologically protected - stable configuration")

\* DefectClassification.create_vortex (topological_defect.py:79)
create_vortex(h) ==
    TopologicalDefect(h,
        "Vortex/String",
        "LINE",
        "TEMPORAL_CONTINUITY",
        "Prophetic Lineage",
        <<"One-dimensional line through time", "Spiritual circulation around axis", "Connects past and future", "Winding number represents tradition depth", "Cannot be unwound continuously">>,
        "Protected by winding number (homotopy group)")

\* DefectClassification.create_domain_wall (topological_defect.py:104)
create_domain_wall(h) ==
    TopologicalDefect(h,
        "Domain Wall",
        "SURFACE",
        "DENOMINATIONAL",
        "Denominational Boundaries",
        <<"Surface separating different traditions", "Marks theological phase transition", "Energy barrier to cross denominations", "Can merge or annihilate with antiwall", "Represents historical schisms">>,
        "Semi-stable - can evolve or annihilate")

\* DefectClassification.create_texture (topological_defect.py:129)
create_texture(h) ==
    TopologicalDefect(h,
        "Texture",
        "VOLUME",
        "DOCTRINAL",
        "Doctrinal Interpretation Space",
        <<"Volume-filling configuration", "Gradual variation across space", "Represents hermeneutical complexity", "No sharp boundaries", "Maps out interpretation landscape">>,
        "Metastable - can decay to vacuum")

\* variant: the list of defects is returned empty
get_all_defects_empty(h) ==
    NewObject(h, "list", <<>>)

\* variant: a copied line, the vortex is listed twice and the wall is missing
get_all_defects_vortex_twice(h) ==
    LET d1 == create_monopole(h)
        d2 == create_vortex(d1.heap)
        d3 == create_vortex(d2.heap)
        d4 == create_texture(d3.heap)
    IN NewObject(d4.heap, "list", <<d1.ret, d2.ret, d3.ret, d4.ret>>)

\* DefectClassification.get_all_defects (topological_defect.py:154)
get_all_defects(h) ==
    LET d1 == create_monopole(h)
        d2 == create_vortex(d1.heap)
        d3 == create_domain_wall(d2.heap)
        d4 == create_texture(d3.heap)
    IN NewObject(d4.heap, "list", <<d1.ret, d2.ret, d3.ret, d4.ret>>)

\* DefectTheology.explain_framework (topological_defect.py:168)
explain_framework(h) ==
    [heap |-> h, ret |-> Str("TOPOLOGICAL DEFECTS IN THEOLOGICAL FRAMEWORK")]

\* ArchangelMichaelHistory.get_archangel_michael (archangel_michael_history.py:44)
get_archangel_michael(h) ==
    HistoricalFigure(h,
        "Archangel Michael",
        "Ancient texts (3rd century BCE - 1st century CE and earlier)",
        "Chief of the archangels in Jewish, Christian, and Islamic theology",
        "Warrior angel, protector of Israel, defeater of Satan, weigher of souls")

\* ArchangelMichaelHistory.get_michelangelo_artist (archangel_michael_history.py:54)
get_michelangelo_artist(h) ==
    HistoricalFigure(h,
        "Michelangelo di Lodovico Buonarroti Simoni",
        "Renaissance (1475-1564 CE)",
        "Italian sculptor, painter, architect, and poet",
        "Created iconic works including the Sistine Chapel ceiling and 'David' sculpture")

\* ArchangelMichaelHistory.explain_naming_relationship (archangel_michael_history.py:64)
explain_naming_relationship(h) ==
    [heap |-> h, ret |-> Str("HISTORICAL CLARIFICATION: Archangel Michael vs. Michelangelo")]

\* ArchangelMichaelHistory.get_ancient_references (archangel_michael_history.py:117)
get_ancient_references(h) ==
    NewObject(h, "list", <<
        Str("Book of Daniel 10:13 - 'Michael, one of the chief princes'"),
        Str("Book of Daniel 12:1 - 'Michael, the great prince who protects your people'"),
        Str("Book of Enoch 20:5 - 'Michael, one of the holy angels'"),
        Str("Epistle of Jude 1:9 - 'Michael the archangel...disputed with the devil'"),
        Str("Book of Revelation 12:7 - 'Michael and his angels fought against the dragon'"),
        Str("Quran 2:98 - 'Michael (Mikal) is among the angels'"),
        Str("1 Thessalonians 4:16 - 'The Lord himself shall descend...with the voice of the archangel'")>>)

\* ArchangelMichaelHistory.michelangelo_works_featuring_angels (archangel_michael_history.py:130)
michelangelo_works_featuring_angels(h) ==
    NewObject(h, "list", <<
        Str("Sistine Chapel Ceiling (1508-1512) - Various angels in biblical scenes"),
        Str("The Last Judgment (1536-1541) - Angels with trumpets"),
        Str("Manchester Madonna (c. 1497) - Angels in attendance"),
        Str("Doni Tondo (c. 1507) - Angels in background"),
        Str("Tomb of Pope Julius II - Angels as decorative elements")>>)

\* ArchangelMichael.get_name_etymology (archangel_michael.py:58)
get_name_etymology(h) ==
    [heap |-> h, ret |-> Str("MICHAEL (מִיכָאֵל - Mikha'el)")]

\* ArchangelMichael.get_biblical_references (archangel_michael.py:86)
get_biblical_references(h) ==
    LET t1 == NewObject(h, "tuple", <<Str("Daniel 10:13"), Str("Michael as 'one of the chief princes' helping Daniel")>>)
        t2 == NewObject(t1.heap, "tuple", <<Str("Daniel 10:21"), Str("Michael described as 'your prince' (Israel's protector)")>>)
        t3 == NewObject(t2.heap, "tuple", <<Str("Daniel 12:1"), Str("Michael as the great prince who protects Daniel's people")>>)
        t4 == NewObject(t3.heap, "tuple", <<Str("Jude 1:9"), Str("Michael the archangel disputes with the devil over Moses' body")>>)
        t5 == NewObject(t4.heap, "tuple", <<Str("Revelation 12:7-9"), Str("Michael and his angels fight the dragon (Satan)")>>)
    IN NewObject(t5.heap, "list", <<t1.ret, t2.ret, t3.ret, t4.ret, t5.ret>>)

\* ArchangelMichael.get_theological_roles (archangel_michael.py:102)
get_theological_roles(h) ==
    LET a1 == TheologicalAttribute(h,
              "Divine Warrior",
              "Christian/Jewish",
              "Commander of the heavenly armies against evil",
              "Divine justice and protection against spiritual warfare",
              "WARRIOR_WITH_SWORD")
        a2 == TheologicalAttribute(a1.heap,
              "Dragon Slayer",
              "Christian (Revelation)",
              "Defeats the dragon (Satan) and casts him from heaven",
              "Victory of good over evil, light over darkness",
              "DRAGON_VICTOR")
        a3 == TheologicalAttribute(a2.heap,
              "Psychopomp",
              "Catholic/Orthodox",
              "Guides and protects souls on their journey to heaven",
              "Mediation between earthly and heavenly realms",
              "SCALES_OF_JUSTICE")
        a4 == TheologicalAttribute(a3.heap,
              "Protector of Israel",
              "Jewish",
              "Special guardian and advocate for the people of Israel",
              "Divine providence and national protection",
              "ARMORED_GUARDIAN")
    IN NewObject(a4.heap, "list", <<a1.ret, a2.ret, a3.ret, a4.ret>>)

\* ArchangelMichael.get_michelangelo_connection (archangel_michael.py:141)
get_michelangelo_connection(h) ==
    [heap |-> h, ret |-> Str("ARCHANGEL MICHAEL & MICHELANGELO: ARTISTIC-THEOLOGICAL SYNTHESIS")]

\* ArchangelMichael.get_cross_tradition_comparison (archangel_michael.py:206)
get_cross_tradition_comparison(h) ==
    [heap |-> h, ret |-> Str("ARCHANGEL MICHAEL ACROSS TRADITIONS")]

\* MichaelTheology.analyze_warrior_archetype (archangel_michael.py:261)
analyze_warrior_archetype(h) ==
    [heap |-> h, ret |-> Str("THE DIVINE WARRIOR ARCHETYPE")]

\* MichaelTheology.explain_theological_significance (archangel_michael.py:320)
explain_theological_significance(h) ==
    [heap |-> h, ret |-> Str("THEOLOGICAL SIGNIFICANCE OF ARCHANGEL MICHAEL")]

\* the four content modules; none imports another
Modules ==
    {"categorical_theology", "topological_defect", "archangel_michael_history", "archangel_michael"}

\* the static query methods module m defines
FunctionsOf(m) ==
    CASE m = "categorical_theology" ->
        {"create_maitreya", "create_messiah", "create_erlang_shen",
         "create_archangel_michael", "demonstrate_duality",
         "demonstrate_warrior_correspondence", "explain_correspondence",
         "explain_warrior_correspondence"}
      [] m = "topological_defect" ->
        {"create_monopole", "create_vortex", "create_domain_wall",
         "create_texture", "get_all_defects", "explain_framework"}
      [] m = "archangel_michael_history" ->
        {"get_archangel_michael", "get_michelangelo_artist",
         "explain_naming_relationship", "get_ancient_references",
         "michelangelo_works_featuring_angels"}
      [] m = "archangel_michael" ->
        {"get_name_etymology", "get_biblical_references",
         "get_theological_roles", "get_michelangelo_connection",
         "get_cross_tradition_comparison", "analyze_warrior_archetype",
         "explain_theological_significance"}

QueryFunctions == UNION {FunctionsOf(m) : m \in Modules}

\* the queries whose result is a list
CollectionQueries ==
    {"get_all_defects", "get_biblical_references", "get_theological_roles",
     "get_ancient_references", "michelangelo_works_featuring_angels"}

\* the body of the static method fn, run on heap h
QueryBody(fn, h) ==
    CASE fn = "create_maitreya" -> create_maitreya(h)
      [] fn = "create_messiah" -> create_messiah(h)
      [] fn = "create_erlang_shen" -> create_erlang_shen(h)
      [] fn = "create_archangel_michael" -> create_archangel_michael(h)
      [] fn = "demonstrate_duality" -> demonstrate_duality(h)
      [] fn = "demonstrate_warrior_correspondence" -> demonstrate_warrior_correspondence(h)
      [] fn = "explain_correspondence" -> explain_correspondence(h)
      [] fn = "explain_warrior_correspondence" -> explain_warrior_correspondence(h)
      [] fn = "create_monopole" -> create_monopole(h)
      [] fn = "create_vortex" -> create_vortex(h)
      [] fn = "create_domain_wall" -> create_domain_wall(h)
      [] fn = "create_texture" -> create_texture(h)
      [] fn = "get_all_defects" -> get_all_defects(h)
      [] fn = "explain_framework" -> explain_framework(h)
      [] fn = "get_archangel_michael" -> get_archangel_michael(h)
      [] fn = "get_michelangelo_artist" -> get_michelangelo_artist(h)
      [] fn = "explain_naming_relationship" -> explain_naming_relationship(h)
      [] fn = "get_ancient_references" -> get_ancient_references(h)
      [] fn = "michelangelo_works_featuring_angels" -> michelangelo_works_featuring_angels(h)
      [] fn = "get_name_etymology" -> get_name_etymology(h)
      [] fn = "get_biblical_references" -> get_biblical_references(h)
      [] fn = "get_theological_roles" -> get_theological_roles(h)
      [] fn = "get_michelangelo_connection" -> get_michelangelo_connection(h)
      [] fn = "get_cross_tradition_comparison" -> get_cross_tradition_comparison(h)
      [] fn = "analyze_warrior_archetype" -> analyze_warrior_archetype(h)
      [] fn = "explain_theological_significance" -> explain_theological_significance(h)

\* variant: the static methods are memoised, a repeated call hands out the
\* object built by the earlier one
Query_memoised(fn, h) ==
    IF \E i \in 1..Len(held) : held[i].fn = fn
    THEN [heap |-> h, ret |-> held[CHOOSE i \in 1..Len(held) : held[i].fn = fn].ret]
    ELSE QueryBody(fn, h)

\* the call of the static method fn
Query(fn, h) == QueryBody(fn, h)

RECURSIVE Deep(_, _)
\* the value of element e as == sees it: objects compared by class and contents
Deep(h, e) ==
    IF e.t = "ref"
    THEN [t |-> "obj", cls |-> h[e.r].cls,
          items |-> [i \in 1..Len(h[e.r].items) |-> Deep(h, h[e.r].items[i])]]
    ELSE e

RECURSIVE Reach(_, _)
\* identities of the objects reachable from element e
Reach(h, e) ==
    IF e.t = "ref"
    THEN {e.r} \cup UNION {Reach(h, h[e.r].items[i]) : i \in 1..Len(h[e.r].items)}
    ELSE {}

\* class DefectDimension(Enum): the members in definition order, values 0..3
DefectDimension == <<"POINT", "LINE", "SURFACE", "VOLUME">>

\* TemporalDirection / DefectDimension members: .value and .name
EnumValue(e) ==
    CASE e.c = "TemporalDirection" /\ e.s = "FORWARD" -> "forward"
      [] e.c = "TemporalDirection" /\ e.s = "BACKWARD" -> "backward"
EnumName(e) == e.s

\* TheologicalConcept.__str__:
\* f"{self.name} ({self.tradition}): {self.temporal_direction.value}"
TheologicalConcept_str(h, id) ==
    h[id].items[1].s \o " (" \o h[id].items[2].s \o "): " \o EnumValue(h[id].items[3])

\* TopologicalDefect.__str__:
\* f"{self.name} ({self.dimension.name}): {self.theological_concept}"
TopologicalDefect_str(h, id) ==
    IF h[id].items[2].t = "enum"
    THEN h[id].items[1].s \o " (" \o EnumName(h[id].items[2]) \o "): " \o h[id].items[4].s
    ELSE "AttributeError: 'str' object has no attribute 'name'"

\* variant: the homotopy index is taken from the value of the dimension
calculate_homotopy_group_by_value(h, id) ==
    LET dimension == h[id].items[2] IN
    IF dimension = Enum("DefectDimension", "POINT")
    THEN "π₀(discrete) (distinguishes phases)"
    ELSE IF dimension = Enum("DefectDimension", "LINE")
    THEN "π₁(S¹) = Z (winding number quantized)"
    ELSE IF dimension = Enum("DefectDimension", "SURFACE")
    THEN "π₂(S²) = Z (monopole charge quantized)"
    ELSE IF dimension = Enum("DefectDimension", "VOLUME")
    THEN "π₃(S³) = Z (texture can be classified)"
    ELSE "Unknown"

\* DefectTheology.calculate_homotopy_group(defect)
calculate_homotopy_group(h, id) ==
    LET dimension == h[id].items[2] IN
    IF dimension = Enum("DefectDimension", "POINT")
    THEN "π₂(S²) = Z (monopole charge quantized)"
    ELSE IF dimension = Enum("DefectDimension", "LINE")
    THEN "π₁(S¹) = Z (winding number quantized)"
    ELSE IF dimension = Enum("DefectDimension", "SURFACE")
    THEN "π₀(discrete) (distinguishes phases)"
    ELSE IF dimension = Enum("DefectDimension", "VOLUME")
    THEN "π₃(S³) = Z (texture can be classified)"
    ELSE "Unknown"

(***************************************************************************)
(* State of the content side: the heap, the results the caller holds (each *)
(* with the value it had when it was returned, and whether some result     *)
(* held at that moment had been altered by the caller), and the text       *)
(* produced by the last step, if any.                                      *)
(***************************************************************************)
NoText == [op |-> "none", text |-> "", arg |-> 0]
TamperMark == Str("tampered")

Altered(i) == Deep(objs, held[i].ret) # held[i].snap
SomeAltered == \E i \in 1..Len(held) : Altered(i)

TamperCount ==
    Cardinality(UNION {{<<id, i>> : i \in {j \in 1..Len(objs[id].items) :
                                             objs[id].items[j] = TamperMark}} :
                       id \in 1..Len(objs)})

\* the objects of the result the caller obtained last
Latest == IF held = <<>> THEN {} ELSE Reach(objs, held[Len(held)].ret)

\* the caller has imported one of the content modules
ContentInit ==
    /\ module \in Modules
    /\ objs = EmptyHeap
    /\ held = <<>>
    /\ shown = NoText

\* result = Class.fn()
Call(fn) ==
    /\ fn \in FunctionsOf(module)
    /\ Len(held) < MaxHeld
    /\ LET r == Query(fn, objs) IN
       /\ objs' = r.heap
       /\ held' = Append(held, [fn |-> fn, ret |-> r.ret, snap |-> Deep(r.heap, r.ret),
                                dirty |-> SomeAltered])
    /\ shown' = NoText
    /\ UNCHANGED module

\* the caller drops the results it holds; their objects are reclaimed
Release ==
    /\ held # <<>>
    /\ objs' = EmptyHeap
    /\ held' = <<>>
    /\ shown' = NoText
    /\ UNCHANGED module

\* caller: some_list.append("tampered") on a list of the result it just got
AppendTo(id) ==
    /\ objs[id].cls = "list"
    /\ id \in Latest
    /\ TamperCount < MaxTamper
    /\ objs' = [objs EXCEPT ![id].items = Append(@, TamperMark)]
    /\ shown' = NoText
    /\ UNCHANGED <<module, held>>

\* caller: record.name = "tampered" on a dataclass instance of the result it
\* just got
ReassignName(id) ==
    /\ objs[id].cls \in Dataclasses
    /\ id \in Latest
    /\ TamperCount < MaxTamper
    /\ objs' = [objs EXCEPT ![id].items[1] = TamperMark]
    /\ shown' = NoText
    /\ UNCHANGED <<module, held>>

\* caller: defect.dimension = "tampered" on a defect of the result it just got
ReassignDimension(id) ==
    /\ objs[id].cls = "TopologicalDefect"
    /\ id \in Latest
    /\ TamperCount < MaxTamper
    /\ objs' = [objs EXCEPT ![id].items[2] = TamperMark]
    /\ shown' = NoText
    /\ UNCHANGED <<module, held>>

\* print(record): str() of a TheologicalConcept or TopologicalDefect of the
\* result the caller just got
PrintRecord(id) ==
    /\ objs[id].cls \in {"TheologicalConcept", "TopologicalDefect"}
    /\ id \in Latest
    /\ shown' = [op |-> "__str__",
                 text |-> IF objs[id].cls = "TheologicalConcept"
                          THEN TheologicalConcept_str(objs, id)
                          ELSE TopologicalDefect_str(objs, id),
                 arg |-> id]
    /\ UNCHANGED <<module, objs, held>>

\* DefectTheology.calculate_homotopy_group(defect), defect taken from the
\* result the caller just got
HomotopyGroup(id) ==
    /\ objs[id].cls = "TopologicalDefect"
    /\ id \in Latest
    /\ shown' = [op |-> "calculate_homotopy_group",
                 text |-> calculate_homotopy_group(objs, id),
                 arg |-> id]
    /\ UNCHANGED <<module, objs, held>>

\* the queries the record-handling caller uses: producers of each of the four
\* dataclasses, singly, in a tuple and in a list
RecordQueries ==
    {"create_maitreya", "demonstrate_duality", "create_monopole", "get_all_defects",
     "get_archangel_michael", "get_theological_roles"}

\* a caller that queries the registries, alters what it got and queries again
ContentNext ==
    /\ \/ \E fn \in QueryFunctions : Call(fn)
       \/ Release
       \/ \E id \in 1..Len(objs) : AppendTo(id)
       \/ \E id \in 1..Len(objs) : ReassignName(id)
    /\ UNCHANGED <<pairVars, scriptVars>>

\* a caller that obtains records and hands them to the operations taking one
RecordNext ==
    /\ \/ \E fn \in RecordQueries : Call(fn)
       \/ \E id \in 1..Len(objs) : PrintRecord(id)
       \/ \E id \in 1..Len(objs) : HomotopyGroup(id)
       \/ Release
       \/ \E id \in 1..Len(objs) : AppendTo(id)
       \/ \E id \in 1..Len(objs) : ReassignName(id)
       \/ \E id \in 1..Len(objs) : ReassignDimension(id)
    /\ UNCHANGED <<pairVars, scriptVars>>

(***************************************************************************)
(* The scripts: the console demonstrations and the PsychoPy experiments    *)
(* (window, poll - draw - flip loop, entry point)                          *)
(***************************************************************************)
ConsoleScripts ==
    {"categorical_theology", "topological_defect", "archangel_michael",
     "archangel_michael_history"}
ExperimentScripts ==
    {"divine_name_experiment", "pushforward_pullback_experiment",
     "topological_defect_experiment", "warrior_deity_experiment"}
Scripts == ConsoleScripts \cup ExperimentScripts

\* the `if __name__ == "__main__":` block of each script: whether the call is
\* inside try / except Exception, and whether the handler prints a traceback
EntryPoint(s) ==
    CASE s = "categorical_theology" -> [try |-> FALSE, traceback |-> FALSE]
      [] s = "topological_defect" -> [try |-> FALSE, traceback |-> FALSE]
      [] s = "archangel_michael" -> [try |-> FALSE, traceback |-> FALSE]
      [] s = "archangel_michael_history" -> [try |-> FALSE, traceback |-> FALSE]
      [] s = "divine_name_experiment" -> [try |-> TRUE, traceback |-> FALSE]
      [] s = "pushforward_pullback_experiment" -> [try |-> TRUE, traceback |-> TRUE]
      [] s = "topological_defect_experiment" -> [try |-> TRUE, traceback |-> TRUE]
      [] s = "warrior_deity_experiment" -> [try |-> TRUE, traceback |-> FALSE]

\* the key list handed to event.getKeys
KeyList(s) ==
    CASE s = "divine_name_experiment" -> {"space", "escape"}
      [] s = "pushforward_pullback_experiment" -> {"space", "escape", "left", "right"}
      [] s = "topological_defect_experiment" -> {"escape", "space", "1", "2", "3", "4"}
      [] s = "warrior_deity_experiment" -> {"space", "escape", "left", "right"}

\* the state variables set before the loop
InitialView(s) ==
    CASE s = "divine_name_experiment" -> [showing_original |-> TRUE]
      [] s = "pushforward_pullback_experiment" ->
            [showing_detailed |-> FALSE, focus_side |-> "both"]
      [] s = "topological_defect_experiment" -> [current_view |-> "overview"]
      [] s = "warrior_deity_experiment" ->
            [showing_details |-> FALSE, focus_mode |-> "None"]

Handled(key, v) == [handled |-> key, view |-> v]

\* variant: either listed key ends the loop
divine_name_keys_any_key_exits(v, keys) ==
    IF "escape" \in keys \/ "space" \in keys THEN Handled("escape", v)
    ELSE Handled("none", v)

\* divine_name_experiment.py, the if / elif chain after the poll
divine_name_keys(v, keys) ==
    IF "escape" \in keys THEN Handled("escape", v)
    ELSE IF "space" \in keys
         THEN Handled("space", [v EXCEPT !.showing_original = ~v.showing_original])
    ELSE Handled("none", v)

\* variant: the three label draws are dedented out of the else branch
divine_name_draw_labels_always(v) ==
    {"title", "instruction", "superego_label", "ego_label", "id_label"} \cup
    (IF v.showing_original THEN {"original_text"} ELSE {"transformed_text"})

\* divine_name_experiment.py, the draw calls of one frame
divine_name_draw(v) ==
    {"title", "instruction"} \cup
    (IF v.showing_original
     THEN {"original_text"}
     ELSE {"transformed_text", "superego_label", "ego_label", "id_label"})

\* variant: the space branch is taken but assigns nothing
topological_defect_keys_sticky(v, keys) ==
    IF "escape" \in keys THEN Handled("escape", v)
    ELSE IF "space" \in keys THEN Handled("space", v)
    ELSE IF "1" \in keys THEN Handled("1", [v EXCEPT !.current_view = "monopole"])
    ELSE IF "2" \in keys THEN Handled("2", [v EXCEPT !.current_view = "vortex"])
    ELSE IF "3" \in keys THEN Handled("3", [v EXCEPT !.current_view = "wall"])
    ELSE IF "4" \in keys THEN Handled("4", [v EXCEPT !.current_view = "texture"])
    ELSE Handled("none", v)

\* topological_defect_experiment.py, the if / elif chain after the poll
topological_defect_keys(v, keys) ==
    IF "escape" \in keys THEN Handled("escape", v)
    ELSE IF "space" \in keys THEN Handled("space", [v EXCEPT !.current_view = "overview"])
    ELSE IF "1" \in keys THEN Handled("1", [v EXCEPT !.current_view = "monopole"])
    ELSE IF "2" \in keys THEN Handled("2", [v EXCEPT !.current_view = "vortex"])
    ELSE IF "3" \in keys THEN Handled("3", [v EXCEPT !.current_view = "wall"])
    ELSE IF "4" \in keys THEN Handled("4", [v EXCEPT !.current_view = "texture"])
    ELSE Handled("none", v)

\* topological_defect_experiment.py, the draw calls of one frame
topological_defect_draw(v) ==
    {"title", "instruction"} \cup
    (IF v.current_view = "overview" THEN {"overview_text"}
     ELSE IF v.current_view = "monopole"
          THEN {"monopole_title", "monopole_concept", "monopole_desc",
                "monopole_center", "monopole_circles"}
     ELSE IF v.current_view = "vortex"
          THEN {"vortex_title", "vortex_concept", "vortex_desc", "vortex_line",
                "vortex_arrows"}
     ELSE IF v.current_view = "wall"
          THEN {"wall_title", "wall_concept", "wall_desc", "wall_surface",
                "wall_left_label", "wall_right_label"}
     ELSE IF v.current_view = "texture"
          THEN {"texture_title", "texture_concept", "texture_desc", "texture_points"}
     ELSE {})

\* variant: an arrow selects its side and never returns to 'both'
pushforward_pullback_keys_no_toggle(v, keys) ==
    IF "escape" \in keys THEN Handled("escape", v)
    ELSE IF "space" \in keys
         THEN Handled("space", [v EXCEPT !.showing_detailed = ~v.showing_detailed])
    ELSE IF "left" \in keys THEN Handled("left", [v EXCEPT !.focus_side = "left"])
    ELSE IF "right" \in keys THEN Handled("right", [v EXCEPT !.focus_side = "right"])
    ELSE Handled("none", v)

\* pushforward_pullback_experiment.py, the if / elif chain after the poll
pushforward_pullback_keys(v, keys) ==
    IF "escape" \in keys THEN Handled("escape", v)
    ELSE IF "space" \in keys
         THEN Handled("space", [v EXCEPT !.showing_detailed = ~v.showing_detailed])
    ELSE IF "left" \in keys
         THEN Handled("left", [v EXCEPT !.focus_side =
                                  IF v.focus_side # "left" THEN "left" ELSE "both"])
    ELSE IF "right" \in keys
         THEN Handled("right", [v EXCEPT !.focus_side =
                                   IF v.focus_side # "right" THEN "right" ELSE "both"])
    ELSE Handled("none", v)

\* pushforward_pullback_experiment.py, the draw calls of one frame
pushforward_pullback_draw(v) ==
    {"title", "instruction"} \cup
    (IF v.showing_detailed THEN {"detailed_view"}
     ELSE (IF v.focus_side \in {"left", "both"}
           THEN {"pushforward_title", "maitreya_label", "pushforward_desc",
                 "pushforward_arrow", "pushforward_properties"}
                \cup (IF v.focus_side = "left" THEN {"focus_left"} ELSE {})
           ELSE {})
          \cup
          (IF v.focus_side \in {"right", "both"}
           THEN {"pullback_title", "messiah_label", "pullback_desc",
                 "pullback_arrow", "pullback_properties"}
                \cup (IF v.focus_side = "right" THEN {"focus_right"} ELSE {})
           ELSE {})
          \cup
          (IF v.focus_side = "both" THEN {"duality_text"} ELSE {}))

\* variant: the branches are tested in the order of the key list
warrior_deity_keys_space_first(v, keys) ==
    IF "space" \in keys
    THEN Handled("space", [v EXCEPT !.showing_details = ~v.showing_details])
    ELSE IF "escape" \in keys THEN Handled("escape", v)
    ELSE IF "left" \in keys
         THEN Handled("left", [v EXCEPT !.focus_mode =
                                  IF v.focus_mode # "left" THEN "left" ELSE "None"])
    ELSE IF "right" \in keys
         THEN Handled("right", [v EXCEPT !.focus_mode =
                                   IF v.focus_mode # "right" THEN "right" ELSE "None"])
    ELSE Handled("none", v)

\* warrior_deity_experiment.py, the if / elif chain after the poll
warrior_deity_keys(v, keys) ==
    IF "escape" \in keys THEN Handled("escape", v)
    ELSE IF "space" \in keys
         THEN Handled("space", [v EXCEPT !.showing_details = ~v.showing_details])
    ELSE IF "left" \in keys
         THEN Handled("left", [v EXCEPT !.focus_mode =
                                  IF v.focus_mode # "left" THEN "left" ELSE "None"])
    ELSE IF "right" \in keys
         THEN Handled("right", [v EXCEPT !.focus_mode =
                                   IF v.focus_mode # "right" THEN "right" ELSE "None"])
    ELSE Handled("none", v)

\* warrior_deity_experiment.py, the draw calls of one frame
warrior_deity_draw(v) ==
    {"title", "instruction", "erlang_title", "erlang_tradition", "erlang_properties",
     "michael_title", "michael_tradition", "michael_properties", "arrow",
     "identity_label"}
    \cup (IF v.showing_details THEN {"detailed_explanation"} ELSE {})

KeysHandler(s, v, keys) ==
    CASE s = "divine_name_experiment" -> divine_name_keys(v, keys)
      [] s = "pushforward_pullback_experiment" -> pushforward_pullback_keys(v, keys)
      [] s = "topological_defect_experiment" -> topological_defect_keys(v, keys)
      [] s = "warrior_deity_experiment" -> warrior_deity_keys(v, keys)

Draw(s, v) ==
    CASE s = "divine_name_experiment" -> divine_name_draw(v)
      [] s = "pushforward_pullback_experiment" -> pushforward_pullback_draw(v)
      [] s = "topological_defect_experiment" -> topological_defect_draw(v)
      [] s = "warrior_deity_experiment" -> warrior_deity_draw(v)

\* what one event.getKeys call can return: the listed keys pressed since the
\* previous poll
Polls(s) == {keys \in SUBSET KeyList(s) : Cardinality(keys) <= MaxKeys}

\* a call into the toolkit, or a print, can raise; Ctrl-C raises KeyboardInterrupt
ExceptionKinds == {"Exception", "KeyboardInterrupt"}
NoFault == [at |-> "none", kind |-> "none"]
Faults ==
    {NoFault} \cup {[at |-> a, kind |-> k] : a \in {"getKeys", "flip"}, k \in ExceptionKinds}

NoView == [idle |-> TRUE]
NoFrame ==
    [n |-> 0, keys |-> {}, handled |-> "none", before |-> NoView, drawn |-> {},
     flipped |-> FALSE, closed |-> FALSE]
NoPrior == [handled |-> "none", before |-> NoView]
NoExit == [status |-> 0, raised |-> "none", caught |-> FALSE, message |-> ""]

\* a console demonstration returns and the interpreter ends with status 0
Returned == [status |-> 0, raised |-> "none", caught |-> FALSE, message |-> ""]

\* win.close(); core.quit(): core.quit ends in sys.exit(0), a SystemExit that
\* `except Exception` does not match
Quit == [status |-> 0, raised |-> "SystemExit", caught |-> FALSE, message |-> ""]

\* variant: the handler reports the error and lets the script end normally
Raised_exit_zero(s, kind) ==
    IF EntryPoint(s).try /\ kind = "Exception"
    THEN [status |-> 0, raised |-> kind, caught |-> TRUE,
          message |-> "Error running experiment"]
    ELSE [status |-> IF kind = "KeyboardInterrupt" THEN 130 ELSE 1, raised |-> kind,
          caught |-> FALSE, message |-> "Traceback"]

\* an exception leaves create_experiment / demonstrate_...: the except clause
\* of the entry point, when there is one and it matches, prints and calls
\* sys.exit(1); otherwise the interpreter prints the traceback and ends
Raised(s, kind) ==
    IF EntryPoint(s).try /\ kind = "Exception"
    THEN [status |-> 1, raised |-> kind, caught |-> TRUE,
          message |-> "Error running experiment"]
    ELSE [status |-> IF kind = "KeyboardInterrupt" THEN 130 ELSE 1, raised |-> kind,
          caught |-> FALSE, message |-> "Traceback"]

Count(n) == IF n < MaxFrames THEN n + 1 ELSE MaxFrames

ScriptIdle ==
    /\ script = "none"
    /\ pc = "idle"
    /\ view = NoView
    /\ frame = NoFrame
    /\ prior = NoPrior
    /\ exit = NoExit

\* python <script>.py
ScriptInit ==
    /\ script \in Scripts
    /\ pc = "start"
    /\ view = NoView
    /\ frame = NoFrame
    /\ prior = NoPrior
    /\ exit = NoExit

\* the entry point calls the script's function: a console demonstration runs
\* to its end, an experiment creates its window and stimuli and sets its state
\* variables
Run(kind) ==
    /\ pc = "start"
    /\ IF kind # "none"
       THEN pc' = "exited" /\ exit' = Raised(script, kind) /\ view' = view
       ELSE IF script \in ConsoleScripts
       THEN pc' = "exited" /\ exit' = Returned /\ view' = view
       ELSE pc' = "loop" /\ exit' = exit /\ view' = InitialView(script)
    /\ UNCHANGED <<script, frame, prior>>

\* one iteration of `while True:`: poll, branch on the keys, draw, flip, test
\* win._closed
Iterate(keys, closed, fault) ==
    /\ pc = "loop"
    /\ LET h == KeysHandler(script, view, keys)
           n == Count(frame.n)
           this == [n |-> n, keys |-> keys, handled |-> h.handled, before |-> view,
                    drawn |-> {}, flipped |-> FALSE, closed |-> FALSE]
       IN  IF fault.at = "getKeys"
           THEN /\ frame' = [this EXCEPT !.keys = {}, !.handled = "none"]
                /\ view' = view
                /\ pc' = "exited"
                /\ exit' = Raised(script, fault.kind)
           ELSE IF h.handled = "escape"
           THEN /\ frame' = this
                /\ view' = h.view
                /\ pc' = "exited"
                /\ exit' = Quit
           ELSE IF fault.at = "flip"
           THEN /\ frame' = [this EXCEPT !.drawn = Draw(script, h.view)]
                /\ view' = h.view
                /\ pc' = "exited"
                /\ exit' = Raised(script, fault.kind)
           ELSE /\ frame' = [this EXCEPT !.drawn = Draw(script, h.view),
                                         !.flipped = TRUE, !.closed = closed]
                /\ view' = h.view
                /\ pc' = IF closed THEN "exited" ELSE "loop"
                /\ exit' = IF closed THEN Quit ELSE exit
    /\ prior' = [handled |-> frame.handled, before |-> frame.before]
    /\ UNCHANGED script

ScriptNext ==
    /\ \/ \E kind \in ExceptionKinds \cup {"none"} : Run(kind)
       \/ /\ script \in ExperimentScripts
          /\ \E keys \in Polls(script), closed \in BOOLEAN, fault \in Faults :
                Iterate(keys, closed, fault)
    /\ UNCHANGED <<pairVars, contentVars>>

\* the content side while the pairs are exercised
ContentIdle ==
    /\ module = "categorical_theology"
    /\ objs = EmptyHeap
    /\ held = <<>>
    /\ shown = NoText

\* a run exercises the transformation pairs, the content queries or a script
PairsOnly == PairInit /\ ContentIdle /\ ScriptIdle
ContentOnly == PairIdle /\ ContentInit /\ ScriptIdle
ScriptOnly == PairIdle /\ ContentIdle /\ ScriptInit
TripleOnly == TripleInit /\ ContentIdle /\ ScriptIdle
Init == PairsOnly \/ ContentOnly \/ ScriptOnly \/ TripleOnly
Next == PairNext \/ ContentNext \/ RecordNext \/ ScriptNext \/ TripleNext

Spec == Init /\ [][Next]_vars
PairSpec == PairsOnly /\ [][PairNext]_vars
ContentSpec == ContentOnly /\ [][ContentNext]_vars
RecordSpec == ContentOnly /\ [][RecordNext]_vars
ScriptSpec == ScriptOnly /\ [][ScriptNext]_vars
TripleSpec == TripleOnly /\ [][TripleNext]_vars
(***************************************************************************)
(* Properties of the transformation pairs                                  *)
(***************************************************************************)
LastIsApply == last.op = "apply"
WrappedFn(p) == pairs[p].transformation.fn
IsComposedBy(p, lam) ==
    /\ pairs[p].transformation.fn = lam
    /\ IsSimple(pairs, pairs[p].transformation.self)
    /\ IsSimple(pairs, pairs[p].transformation.other)
SelfFn(p) == WrappedFn(pairs[p].transformation.self)
OtherFn(p) == WrappedFn(pairs[p].transformation.other)

\* C1: for a Pushforward or Pullback constructed with transformation f,
\* apply(x) returns exactly f(x): the value f returns, unaltered and unwrapped.
C1_ApplyIsTransformation ==
    (LastIsApply /\ IsSimple(pairs, last.self))
        => last.out = CallFunction(WrappedFn(last.self), last.x)

C1_Witness ==
    /\ LastIsApply
    /\ IsSimple(pairs, last.self)
    /\ ~last.out.raised
    /\ last.out.val # last.x

\* C2: forward composition is self-then-other: for P wrapping f and Q wrapping
\* g, P.compose(Q).apply(x) = g(f(x)) for every valid x; with f = append
\* "_done", g = upper-case and x = "step" the result is "STEP_DONE".
C2_ForwardComposition ==
    (LastIsApply /\ IsComposedBy(last.self, PushLambda))
        => LET fx == CallFunction(SelfFn(last.self), last.x) IN
           /\ (~fx.raised /\ ~CallFunction(OtherFn(last.self), fx.val).raised)
                 => last.out = CallFunction(OtherFn(last.self), fx.val)
           /\ (/\ SelfFn(last.self) = "append_done"
               /\ OtherFn(last.self) = "upper"
               /\ last.x = StrVal(<<"s", "t", "e", "p">>))
                 => last.out = Returns(StrVal(<<"S", "T", "E", "P", "_", "D", "O", "N", "E">>))

C2_Witness ==
    /\ LastIsApply
    /\ IsComposedBy(last.self, PushLambda)
    /\ SelfFn(last.self) = "append_done"
    /\ OtherFn(last.self) = "upper"
    /\ last.x = StrVal(<<"s", "t", "e", "p">>)
    /\ ~last.out.raised

\* C3: backward composition is other-then-self: for Pullback pairs P wrapping
\* f and Q wrapping g, P.compose(Q).apply(x) = f(g(x)) for every valid x; with
\* f = prepend "<", g = append ">" and x = "x" the result is "<x>".
C3_BackwardComposition ==
    (LastIsApply /\ IsComposedBy(last.self, PullLambda))
        => LET gx == CallFunction(OtherFn(last.self), last.x) IN
           /\ (~gx.raised /\ ~CallFunction(SelfFn(last.self), gx.val).raised)
                 => last.out = CallFunction(SelfFn(last.self), gx.val)
           /\ (/\ SelfFn(last.self) = "prepend_lt"
               /\ OtherFn(last.self) = "append_gt"
               /\ last.x = StrVal(<<"x">>))
                 => last.out = Returns(StrVal(<<"<", "x", ">">>))

\* an order-sensitive case: f formats, g takes the length
C3_Witness ==
    /\ LastIsApply
    /\ IsComposedBy(last.self, PullLambda)
    /\ SelfFn(last.self) = "pullback_prophecy_lambda"
    /\ OtherFn(last.self) = "length"
    /\ last.x = StrVal(<<"x">>)
    /\ last.out = Returns(StrVal(<<"1">> \o MessiahSuffix))

\* C4: when a wrapped transformation raises for the input it is reached with,
\* apply on the simple pair and on every composed pair whose evaluation
\* reaches it raises that same error: never swallowed, replaced or returned.
C4_ErrorsPropagate ==
    LastIsApply =>
        \A i \in 1..Len(last.trace) :
            LET q == last.trace[i].pair
                a == last.trace[i].arg
            IN (IsSimple(pairs, q) /\ CallFunction(WrappedFn(q), a).raised)
                  => /\ last.out = CallFunction(WrappedFn(q), a)
                     /\ i = Len(last.trace)

\* the second transformation of a composite raises after the first returned
C4_Witness ==
    /\ LastIsApply
    /\ ~IsSimple(pairs, last.self)
    /\ Len(last.trace) = 3
    /\ last.out = Raises("AttributeError")

\* C5: compose returns a new pair object, distinct from both operands, and
\* leaves every existing pair as it was: each applies as before.
C5_ComposeIsFresh ==
    [][last'.op = "compose" =>
          /\ last'.ret \notin {last'.self, last'.other}
          /\ last'.ret \notin 1..Len(pairs)
          /\ last'.ret \in 1..Len(pairs')
          /\ \A p \in 1..Len(pairs) :
                /\ pairs'[p] = pairs[p]
                /\ \A x \in Inputs : apply(pairs', p, x).out = apply(pairs, p, x).out
      ]_vars

C5_Witness ==
    /\ last.op = "compose"
    /\ last.self # last.other
    /\ last.ret \in Composed
    /\ pairs[last.ret].transformation.self = last.self

\* C10: a pair never caches: apply on a simple pair invokes the wrapped
\* transformation exactly once, also when the same argument was applied just
\* before, and a repeated apply returns what the earlier one returned.
C10_NoCaching ==
    LastIsApply =>
        /\ IsSimple(pairs, last.self)
              => last.trace = <<[pair |-> last.self, arg |-> last.x]>>
        /\ last.again => last.out = last.prev

C10_Witness ==
    /\ LastIsApply
    /\ IsSimple(pairs, last.self)
    /\ last.again
    /\ Len(last.trace) = 1

(***************************************************************************)
(* Properties of the content registries                                    *)
(***************************************************************************)
\* C6: every content query is deterministic: two calls of the same query, at
\* any points of a call sequence, return structurally equal results.
C6_QueriesDeterministic ==
    \A i, j \in 1..Len(held) :
        held[i].fn = held[j].fn => held[i].snap = held[j].snap

\* the same query called again after the caller altered its first result
C6_Witness ==
    /\ Len(held) = 2
    /\ held[1].fn = held[2].fn
    /\ held[1].ret.t = "ref"
    /\ Altered(1)
    /\ held[2].dirty

RECURSIVE PropertiesNonEmpty(_)
\* every TheologicalConcept / TopologicalDefect inside value v has a non-empty
\* properties list
PropertiesNonEmpty(v) ==
    v.t = "obj" =>
        /\ v.cls \in {"TheologicalConcept", "TopologicalDefect"}
              => /\ v.items[PropertiesField(v.cls)].t = "obj"
                 /\ v.items[PropertiesField(v.cls)].cls = "list"
                 /\ Len(v.items[PropertiesField(v.cls)].items) >= 1
        /\ \A i \in 1..Len(v.items) : PropertiesNonEmpty(v.items[i])

\* C7: every query that returns a collection returns a non-empty one, and the
\* properties list of every TheologicalConcept and TopologicalDefect a query
\* produces is non-empty.
C7_CollectionsNonEmpty ==
    \A i \in 1..Len(held) :
        /\ held[i].fn \in CollectionQueries
              => /\ held[i].snap.t = "obj"
                 /\ held[i].snap.cls = "list"
                 /\ Len(held[i].snap.items) >= 1
        /\ PropertiesNonEmpty(held[i].snap)

C7_Witness ==
    /\ Len(held) = 2
    /\ held[1].fn = "get_all_defects"
    /\ Len(held[1].snap.items) = 4
    /\ held[2].fn = "create_monopole"
    /\ Len(held[2].snap.items[5].items) = 5

\* the literal data query fn returns
Literal(fn) ==
    LET r == QueryBody(fn, EmptyHeap) IN Deep(r.heap, r.ret)

\* C8: every query returns the same literal data on every call, whatever the
\* caller did with earlier results: a later result shares no object with an
\* earlier one, so an append or a field assignment is not visible in it.
C8_ResultsIndependent ==
    /\ \A i \in 1..Len(held) : held[i].snap = Literal(held[i].fn)
    /\ \A i, j \in 1..Len(held) :
          i # j => Reach(objs, held[i].ret) \cap Reach(objs, held[j].ret) = {}

\* another query called after the caller appended to a properties list
C8_Witness ==
    /\ Len(held) = 2
    /\ held[1].fn = "create_maitreya"
    /\ held[2].fn = "demonstrate_duality"
    /\ Len(Deep(objs, held[1].ret).items[4].items) = 6
    /\ held[2].dirty

\* the fields of the dataclass instances and the contents of their properties
\* lists are the same before and after the step
RecordsKept ==
    \A id \in 1..Len(objs) :
        (objs[id].cls \in Dataclasses /\ id <= Len(objs'))
            => /\ objs'[id] = objs[id]
               /\ objs[id].cls \in {"TheologicalConcept", "TopologicalDefect"}
                     => LET l == objs[id].items[PropertiesField(objs[id].cls)] IN
                        l.t = "ref" => objs'[l.r] = objs[l.r]

\* a step of the repository's own code: a query returned a result or an
\* operation on a record produced its text
RepositoryStep == Len(held') = Len(held) + 1 \/ shown'.op # "none"

\* C9 as stated: a concept record is immutable once constructed, no operation
\* changes any of its fields or the contents of its properties list.
C9_RecordsImmutable == [][RecordsKept]_vars

\* C9 as amended: no operation of the repository changes a constructed record
\* or its properties list; the dataclasses are not frozen, so a caller can.
C9_RepositoryKeepsRecords == [][RepositoryStep => RecordsKept]_vars

\* a record was printed while an earlier result was still held
C9_Witness ==
    /\ Len(held) = 2
    /\ shown.op = "__str__"
    /\ ~SomeAltered
    /\ \E id \in 1..Len(objs) : objs[id].cls = "TopologicalDefect"

(***************************************************************************)
(* Properties of the scripts                                               *)
(***************************************************************************)
Exited == pc = "exited"

\* C11 as stated: every script's entry point has a catch-all, so any exception
\* raised during the run is caught, a message is printed and the process
\* exits with a non-zero status.
C11_CatchAll ==
    (Exited /\ exit.raised \in ExceptionKinds)
        => /\ exit.caught
           /\ exit.message = "Error running experiment"
           /\ exit.status # 0

\* C11 as amended: in the four experiment scripts an Exception raised during
\* the run is caught, the message is printed and the status is 1; a
\* KeyboardInterrupt is not caught, and the four console demonstrations have
\* no handler, so there nothing is caught and the interpreter ends the process.
C11_ExperimentsCatchException ==
    (Exited /\ exit.raised \in ExceptionKinds)
        => IF script \in ExperimentScripts /\ exit.raised = "Exception"
           THEN /\ exit.caught
                /\ exit.message = "Error running experiment"
                /\ exit.status = 1
           ELSE /\ ~exit.caught
                /\ exit.message = "Traceback"
                /\ exit.status # 0

\* an experiment's handler caught an exception raised inside the render loop
C11_Witness ==
    /\ Exited
    /\ script = "divine_name_experiment"
    /\ exit.caught
    /\ frame.n = 2
    /\ ~frame.flipped

LoopEnds == pc = "loop" /\ pc' = "exited"
LoopGoesOn == pc = "loop" /\ pc' = "loop"

\* C12 as stated: a render loop is ended only by a poll that returns 'escape';
\* until then it keeps iterating (poll, draw, flip) and no other event ends it.
C12_OnlyEscapeEnds ==
    [][/\ LoopEnds => "escape" \in frame'.keys
       /\ LoopGoesOn => frame'.flipped /\ "escape" \notin frame'.keys]_vars

\* C12 as amended: a render loop ends when a poll returns 'escape', when the
\* window is found closed after a flip, or when a call raises; otherwise it
\* goes on to the next iteration after its flip.
C12_EscapeCloseOrError ==
    [][/\ LoopEnds => \/ "escape" \in frame'.keys
                      \/ frame'.flipped /\ frame'.closed
                      \/ exit'.raised \in ExceptionKinds
       /\ LoopGoesOn => /\ frame'.flipped
                        /\ "escape" \notin frame'.keys
                        /\ ~frame'.closed]_vars

\* a loop that had drawn a frame ended on a closed window, no escape polled
C12_Witness ==
    /\ Exited
    /\ script = "pushforward_pullback_experiment"
    /\ frame.n = 2
    /\ frame.closed
    /\ "escape" \notin frame.keys

\* C13: in each experiment loop a poll whose key list contains 'escape' ends
\* the loop in that same iteration, whatever other keys it contains: no view or
\* focus variable changes, nothing is drawn and no flip happens after the poll.
C13_EscapeExitsAtOnce ==
    "escape" \in frame.keys
        => /\ Exited
           /\ view = frame.before
           /\ frame.drawn = {}
           /\ ~frame.flipped

\* escape arrived together with a view key, after the view had been changed
C13_Witness ==
    /\ script = "topological_defect_experiment"
    /\ frame.keys = {"escape", "1"}
    /\ frame.n = 2
    /\ view.current_view = "vortex"

DivineName == script = "divine_name_experiment" /\ frame.n >= 1
AnalysisLabels == {"superego_label", "ego_label", "id_label"}
SpaceHandled == "space" \in frame.keys /\ "escape" \notin frame.keys

\* each poll with 'space' and without 'escape' flips showing_original
SpaceFlips ==
    SpaceHandled => view.showing_original = ~frame.before.showing_original

\* a drawn frame holds exactly one of the two texts, and the three analysis
\* labels exactly when it is the transformed text
OneTextPerFrame ==
    frame.flipped
        => /\ ("original_text" \in frame.drawn) # ("transformed_text" \in frame.drawn)
           /\ IF "transformed_text" \in frame.drawn
              THEN AnalysisLabels \subseteq frame.drawn
              ELSE AnalysisLabels \cap frame.drawn = {}

\* C14 as stated: in the divine-name experiment the first frame shows the
\* original text, each poll containing 'space' (and not 'escape') flips
\* showing_original, and every drawn frame holds exactly one of the two texts,
\* with the three analysis labels if and only if it is the transformed text.
C14_FirstFrameOriginal ==
    DivineName
        => /\ (frame.n = 1 /\ frame.flipped) => "original_text" \in frame.drawn
           /\ SpaceFlips
           /\ OneTextPerFrame

\* C14 as amended: showing_original is True when the loop starts, so the first
\* frame shows the original text unless the first poll already holds 'space';
\* the rest as stated.
C14_FirstFrameFollowsFirstPoll ==
    DivineName
        => /\ frame.n = 1 => frame.before.showing_original
           /\ (frame.n = 1 /\ frame.flipped)
                 => ("original_text" \in frame.drawn <=> "space" \notin frame.keys)
           /\ SpaceFlips
           /\ OneTextPerFrame

\* the first poll held 'space' and the first frame shows the transformed text
\* with its labels
C14_Witness ==
    /\ DivineName
    /\ frame.n = 1
    /\ frame.flipped
    /\ frame.keys = {"space"}
    /\ "transformed_text" \in frame.drawn
    /\ "ego_label" \in frame.drawn

TopologicalDefects == script = "topological_defect_experiment" /\ frame.n >= 1
DefectViews == {"overview", "monopole", "vortex", "wall", "texture"}
ViewKeys == {"space", "1", "2", "3", "4"}
ViewOfKey(key) ==
    CASE key = "space" -> "overview"
      [] key = "1" -> "monopole"
      [] key = "2" -> "vortex"
      [] key = "3" -> "wall"
      [] key = "4" -> "texture"

\* the view a stimulus of the topological-defect experiment belongs to
ViewOfStimulus(stim) ==
    CASE stim = "overview_text" -> "overview"
      [] stim \in {"monopole_title", "monopole_concept", "monopole_desc",
                   "monopole_center", "monopole_circles"} -> "monopole"
      [] stim \in {"vortex_title", "vortex_concept", "vortex_desc", "vortex_line",
                   "vortex_arrows"} -> "vortex"
      [] stim \in {"wall_title", "wall_concept", "wall_desc", "wall_surface",
                   "wall_left_label", "wall_right_label"} -> "wall"
      [] stim \in {"texture_title", "texture_concept", "texture_desc",
                   "texture_points"} -> "texture"
      [] OTHER -> "every view"

\* C15: in the topological-defect experiment the view starts as 'overview'; a
\* poll handled as '1','2','3','4' sets current_view to 'monopole','vortex',
\* 'wall','texture' and one handled as 'space' sets it to 'overview', whatever
\* the previous view (the same key again leaves the view unchanged);
\* current_view is always one of the five values and each frame draws the
\* stimuli of exactly that one view.
C15_ViewFollowsKey ==
    TopologicalDefects
        => /\ frame.n = 1 => frame.before.current_view = "overview"
           /\ view.current_view \in DefectViews
           /\ frame.handled \in ViewKeys
                 => /\ frame.handled \in frame.keys
                    /\ view.current_view = ViewOfKey(frame.handled)
           /\ (frame.handled \in ViewKeys /\ prior.handled = frame.handled)
                 => view = frame.before
           /\ frame.handled = "none" => view = frame.before
           /\ frame.flipped
                 => /\ \E stim \in frame.drawn : ViewOfStimulus(stim) = view.current_view
                    /\ \A stim \in frame.drawn :
                          ViewOfStimulus(stim) \in {view.current_view, "every view"}

\* '2' was handled in two successive polls and the vortex frame is drawn
C15_Witness ==
    /\ TopologicalDefects
    /\ prior.handled = "2"
    /\ frame.handled = "2"
    /\ frame.keys = {"2", "4"}
    /\ frame.flipped
    /\ "vortex_arrows" \in frame.drawn

PushforwardPullback == script = "pushforward_pullback_experiment" /\ frame.n >= 1
Arrows == {"left", "right"}
Opposite(side) == IF side = "left" THEN "right" ELSE "left"
SameArrowTwice == frame.handled \in Arrows /\ prior.handled = frame.handled
Restored == view.focus_side = prior.before.focus_side

\* focus_side starts as 'both', stays in its three values, and an arrow sets
\* its own side unless that side is already the focus, then 'both'
FocusToggles ==
    /\ frame.n = 1 => frame.before.focus_side = "both"
    /\ view.focus_side \in {"left", "right", "both"}
    /\ frame.handled \in Arrows
          => view.focus_side = IF frame.before.focus_side = frame.handled
                               THEN "both"
                               ELSE frame.handled
    /\ frame.handled \notin Arrows => view.focus_side = frame.before.focus_side

\* C16 as stated: focus_side starts as 'both' and is always 'left', 'right' or
\* 'both'; 'left' sets it to 'left' unless it already is 'left', then 'both';
\* 'right' symmetrically; so the same arrow in two successive polls restores
\* the previous focus only when that previous focus was 'both'.
C16_RestoredOnlyFromBoth ==
    PushforwardPullback
        => /\ FocusToggles
           /\ (SameArrowTwice /\ Restored) => prior.before.focus_side = "both"

\* C16 as amended: the same arrow in two successive polls restores the previous
\* focus when that focus was 'both' or the arrow's own side, and ends at 'both'
\* when it was the opposite side.
C16_RestoredUnlessOpposite ==
    PushforwardPullback
        => /\ FocusToggles
           /\ SameArrowTwice
                 => IF prior.before.focus_side = Opposite(frame.handled)
                    THEN view.focus_side = "both"
                    ELSE Restored

\* 'left' twice from a focus that already was 'left': back at 'left'
C16_Witness ==
    /\ PushforwardPullback
    /\ SameArrowTwice
    /\ frame.handled = "left"
    /\ prior.before.focus_side = "left"
    /\ view.focus_side = "left"
    /\ frame.flipped

(***************************************************************************)
(* Properties of particular queries                                        *)
(***************************************************************************)
ResultsOf(fn) == {i \in 1..Len(held) : held[i].fn = fn}
NameOf(record) == record.items[1]
DirectionOf(concept) == concept.items[3]

\* C17: demonstrate_duality returns the pair (Maitreya, Messiah) in that
\* order, and the two concepts have opposite temporal directions: Maitreya
\* FORWARD and Messiah BACKWARD.
C17_DualityOrder ==
    \A i \in ResultsOf("demonstrate_duality") :
        LET pair == held[i].snap IN
        /\ pair.cls = "tuple"
        /\ Len(pair.items) = 2
        /\ pair.items[1].cls = "TheologicalConcept"
        /\ pair.items[2].cls = "TheologicalConcept"
        /\ NameOf(pair.items[1]) = Str("Maitreya")
        /\ NameOf(pair.items[2]) = Str("Messiah")
        /\ DirectionOf(pair.items[1]) = Enum("TemporalDirection", "FORWARD")
        /\ DirectionOf(pair.items[2]) = Enum("TemporalDirection", "BACKWARD")
        /\ \A j \in ResultsOf("create_maitreya") : pair.items[1] = held[j].snap
        /\ \A j \in ResultsOf("create_messiah") : pair.items[2] = held[j].snap

\* the pair was returned while a Messiah obtained on its own is held
C17_Witness ==
    /\ Len(held) = 2
    /\ held[1].fn = "create_messiah"
    /\ held[2].fn = "demonstrate_duality"
    /\ EnumValue(DirectionOf(held[2].snap.items[2])) = "backward"

DimensionOf(defect) == defect.items[2]
Range(seq) == {seq[i] : i \in 1..Len(seq)}

\* C18: get_all_defects returns all topological defect types: exactly four
\* defects, one for each member of DefectDimension with none repeated or
\* missing, in the order monopole (POINT), vortex (LINE), domain wall
\* (SURFACE), texture (VOLUME).
C18_AllDefects ==
    \A i \in ResultsOf("get_all_defects") :
        LET defects == held[i].snap.items
            dimensions == [k \in 1..Len(defects) |-> DimensionOf(defects[k]).s]
        IN  /\ held[i].snap.cls = "list"
            /\ Len(defects) = 4
            /\ \A k \in 1..Len(defects) :
                  /\ defects[k].cls = "TopologicalDefect"
                  /\ DimensionOf(defects[k]).c = "DefectDimension"
            /\ Range(dimensions) = Range(DefectDimension)
            /\ Cardinality(Range(dimensions)) = Len(defects)
            /\ dimensions = <<"POINT", "LINE", "SURFACE", "VOLUME">>
            /\ [k \in 1..Len(defects) |-> NameOf(defects[k])]
                  = <<Str("Monopole"), Str("Vortex/String"), Str("Domain Wall"),
                      Str("Texture")>>

\* the list was returned after another query of the module
C18_Witness ==
    /\ Len(held) = 2
    /\ held[1].fn = "create_domain_wall"
    /\ held[2].fn = "get_all_defects"
    /\ held[2].snap.items[3] = held[1].snap

HomotopyShown == shown.op = "calculate_homotopy_group"
IsMember(dimension) ==
    /\ dimension.t = "enum"
    /\ dimension.c = "DefectDimension"
    /\ dimension.s \in Range(DefectDimension)

\* the homotopy group the docstring gives for each kind of defect
DocumentedGroup(member) ==
    CASE member = "POINT" -> "π₂(S²) = Z (monopole charge quantized)"
      [] member = "LINE" -> "π₁(S¹) = Z (winding number quantized)"
      [] member = "SURFACE" -> "π₀(discrete) (distinguishes phases)"
      [] member = "VOLUME" -> "π₃(S³) = Z (texture can be classified)"

\* C19: calculate_homotopy_group maps a defect by its dimension as its
\* docstring states: POINT to the π₂ string, LINE to π₁, SURFACE to π₀, VOLUME
\* to π₃; the result depends on no other field of the defect, and "Unknown" is
\* never returned for a defect whose dimension is a DefectDimension member, in
\* particular for no defect of get_all_defects.
C19_HomotopyByDimension ==
    HomotopyShown
        => LET defect == Deep(objs, Ref(shown.arg)) IN
           /\ IsMember(DimensionOf(defect))
                 => /\ shown.text = DocumentedGroup(DimensionOf(defect).s)
                    /\ shown.text # "Unknown"
           /\ \A i \in ResultsOf("get_all_defects") :
                 defect \in Range(held[i].snap.items) => shown.text # "Unknown"

\* the group of a domain wall whose name the caller had reassigned
C19_Witness ==
    /\ HomotopyShown
    /\ NameOf(objs[shown.arg]) = TamperMark
    /\ DimensionOf(objs[shown.arg]) = Enum("DefectDimension", "SURFACE")
    /\ shown.text = "π₀(discrete) (distinguishes phases)"

(***************************************************************************)
(* Properties relating the two compose variants                            *)
(***************************************************************************)
\* cls(f).compose(cls(g)).apply(x), evaluated on pairs of its own
ComposeApply(cls, f, g, x) ==
    LET a == Construct(<<>>, <<cls, f>>)
        b == Construct(a.heap, <<cls, g>>)
        c == compose(b.heap, a.ret, b.ret)
    IN apply(c.heap, c.ret, x).out

\* f(g(x)) by direct calls; what g raises is the outcome
Nested(f, g, x) ==
    LET inner == CallFunction(g, x) IN
    IF inner.raised THEN inner ELSE CallFunction(f, inner.val)

\* the last operation applied a pair composed of two simple pairs of class cls
AppliedComposed(cls) ==
    /\ LastIsApply
    /\ last.self \in Composed
    /\ pairs[last.self].cls = cls
    /\ IsSimple(pairs, pairs[last.self].transformation.self)
    /\ IsSimple(pairs, pairs[last.self].transformation.other)
    /\ pairs[pairs[last.self].transformation.self].cls = cls
    /\ pairs[pairs[last.self].transformation.other].cls = cls

OtherVariant(cls) == IF cls = "Pushforward" THEN "Pullback" ELSE "Pushforward"

\* C20: Pushforward.compose and Pullback.compose apply their operands in
\* opposite orders: Pushforward(f).compose(Pushforward(g)).apply(x) equals
\* Pullback(g).compose(Pullback(f)).apply(x) for all f, g and x, and with the
\* operands in the same positions the two variants differ whenever f(g(x))
\* differs from g(f(x)).
C20_OppositeOrders ==
    \A cls \in {"Pushforward", "Pullback"} :
        AppliedComposed(cls)
            => LET f == SelfFn(last.self)
                   g == OtherFn(last.self)
               IN  /\ last.out = ComposeApply(OtherVariant(cls), g, f, last.x)
                   /\ Nested(f, g, last.x) # Nested(g, f, last.x)
                         => last.out # ComposeApply(OtherVariant(cls), f, g, last.x)

\* Pushforward(append "_done").compose(Pushforward(upper)) applied to "step":
\* the Pullback variant with the same operands gives another result
C20_Witness ==
    /\ AppliedComposed("Pushforward")
    /\ SelfFn(last.self) = "append_done"
    /\ OtherFn(last.self) = "upper"
    /\ ~last.out.raised
    /\ last.out # ComposeApply("Pullback", "append_done", "upper", last.x)
    /\ last.out = ComposeApply("Pullback", "upper", "append_done", last.x)

(***************************************************************************)
(* Properties of nested compositions and of the invocations of one apply   *)
(***************************************************************************)
RECURSIVE Operands(_, _)
\* the simple pairs a pair is composed of, in the order they were written
Operands(h, p) ==
    IF IsSimple(h, p) THEN <<p>>
    ELSE Operands(h, h[p].transformation.self) \o Operands(h, h[p].transformation.other)

\* the last operation applied one grouping of A, B, C while the other grouping
\* of the same three pairs exists
AppliedGrouping(mine, others) ==
    /\ LastIsApply
    /\ last.self \in mine
    /\ \E q \in others : Operands(pairs, q) = Operands(pairs, last.self)

\* C21: compose is associative in its observable result, for both variants:
\* for pairs A, B, C and every valid x, A.compose(B).compose(C).apply(x)
\* equals A.compose(B.compose(C)).apply(x).
C21_Associative ==
    /\ AppliedGrouping(LeftNested, RightNested)
          => \A q \in RightNested :
                Operands(pairs, q) = Operands(pairs, last.self)
                    => apply(pairs, q, last.x).out = last.out
    /\ AppliedGrouping(RightNested, LeftNested)
          => \A q \in LeftNested :
                Operands(pairs, q) = Operands(pairs, last.self)
                    => apply(pairs, q, last.x).out = last.out

\* three Pullbacks whose order matters: the right grouping applied to "x"
\* while the left grouping of the same pairs exists
C21_Witness ==
    /\ AppliedGrouping(RightNested, LeftNested)
    /\ pairs[1].cls = "Pullback"
    /\ <<WrappedFn(1), WrappedFn(2), WrappedFn(3)>>
          = <<"prepend_lt", "pullback_prophecy_lambda", "length">>
    /\ last.x = StrVal(<<"x">>)
    /\ ~last.out.raised
    /\ last.out # Nested("length", "prepend_lt", last.x)

\* the last operation applied a pair composed of two simple pairs
AppliedPairOfSimple ==
    /\ LastIsApply
    /\ last.self \in Composed
    /\ IsSimple(pairs, pairs[last.self].transformation.self)
    /\ IsSimple(pairs, pairs[last.self].transformation.other)

\* the operand the composition order puts first and the one it puts second:
\* self then other for Pushforward, other then self for Pullback
FirstApplied(p) ==
    IF pairs[p].cls = "Pushforward"
    THEN pairs[p].transformation.self
    ELSE pairs[p].transformation.other
SecondApplied(p) ==
    IF pairs[p].cls = "Pushforward"
    THEN pairs[p].transformation.other
    ELSE pairs[p].transformation.self

\* the invocations of the wrapped transformation of operand q during the last
\* apply
Invocations(q) == {i \in 2..Len(last.trace) : last.trace[i].pair = q}

\* C22: one apply on a composed pair invokes each of the two wrapped
\* transformations at most once, in the composition order (self then other
\* for Pushforward, other then self for Pullback); if the transformation
\* applied first raises, the one applied second is not invoked at all.
C22_InvocationOrder ==
    AppliedPairOfSimple
        => LET first == FirstApplied(last.self)
               second == SecondApplied(last.self)
               result == CallFunction(WrappedFn(first), last.x)
           IN  /\ last.trace[1] = [pair |-> last.self, arg |-> last.x]
               /\ Len(last.trace) <= 3
               /\ last.trace[2] = [pair |-> first, arg |-> last.x]
               /\ IF result.raised
                  THEN Len(last.trace) = 2 /\ last.out = result
                  ELSE /\ Len(last.trace) = 3
                       /\ last.trace[3] = [pair |-> second, arg |-> result.val]
               /\ first # second
                     => /\ Cardinality(Invocations(first)) = 1
                        /\ Cardinality(Invocations(second)) <= 1

\* a composed Pullback whose first applied operand (other) raised: its own
\* transformation was not invoked
C22_Witness ==
    /\ AppliedPairOfSimple
    /\ pairs[last.self].cls = "Pullback"
    /\ FirstApplied(last.self) # SecondApplied(last.self)
    /\ last.out.raised
    /\ Invocations(SecondApplied(last.self)) = {}
    /\ Len(last.trace) = 2
====
